---- MODULE Spec2Model ----
(***************************************************************************)
(* A state-machine model of DonorDrivePython's polling core:               *)
(*   api/participant.py  Participant.run and the helpers it calls          *)
(*   api/team.py         Team.team_run and the helpers it calls            *)
(*   api/activity.py     create_activity                                   *)
(* The fetch layer (api/comms.py: get_json, get_donations, get_badges) and *)
(* the record classes Donation, Donor, Badge, TeamParticipant are not part *)
(* of the sources at hand; they are modelled from the specification.       *)
(***************************************************************************)
EXTENDS Integers, Sequences, FiniteSets, TLC

VARIABLES
    participant,  \* the Participant object's fields, or None (stand-alone Team)
    my_team,      \* the Team object's fields, or None (no team configured)
    requests,     \* the requests <<url, top flag, response>> of the last cycle, in order
    raised,       \* "none", or the exception that escaped the last cycle
    cycle,        \* number of poll cycles started so far
    created       \* a record builder's JSON object and the record built from it, or None

vars == <<participant, my_team, requests, raised, cycle, created>>

\* Bound: number of poll cycles the driving loop performs.
MaxCycles == 3
\* Bound: number of requests of one cycle that fail or come back empty.
MaxFaults == 1
\* Bound: number of poll cycles of a participant that owns a team.
MaxOwnedCycles == 2
MaxMissingCycles == 1
MaxTopCycles == 2
\* Bound: number of times an activity is built and displayed.
MaxDisplays == 2

(***************************************************************************)
(* Python values                                                           *)
(***************************************************************************)
None == [none |-> TRUE]

\* dict.get(key): the value, or None when the key is missing.
Get(json, key) == IF key \in DOMAIN json THEN json[key] ELSE None

\* None where the values are otherwise numbers: amounts and counts are never
\* negative.
NoneNumber == -1
GetNumber(json, key) == IF key \in DOMAIN json THEN json[key] ELSE NoneNumber

RECURSIVE GCD(_, _)
GCD(a, b) == IF b = 0 THEN a ELSE GCD(b, a % b)

\* A number as a reduced fraction; Python's true division a / b for b > 0.
Number(n) == [num |-> n, den |-> 1]
TrueDiv(a, b) == [num |-> a \div GCD(a, b), den |-> b \div GCD(a, b)]

\* f"{symbol}{amount:,.2f}" for a whole amount: symbol, thousands groups, cents.
RECURSIVE Groups(_)
Groups(n) == IF n < 1000 THEN <<n>> ELSE Append(Groups(n \div 1000), n % 1000)
FormatCurrency(symbol, amount) == [symbol |-> symbol, groups |-> Groups(amount), cents |-> 0]

(***************************************************************************)
(* The fetch port (comms.get_json): a response is the decoded JSON of a    *)
(* successful request, or the failure signal.  The failure signal is falsy *)
(* and iterates as an empty collection, so that no failure is fatal.       *)
(***************************************************************************)
Ok(json) == [ok |-> TRUE, data |-> json]
Failure == [ok |-> FALSE, data |-> <<>>]
NotAsked == [ok |-> FALSE, data |-> <<"not asked">>]

\* Python truthiness of what get_json returned: `if json:`.
Truthy(response) == response.ok /\ response.data # <<>>
\* `for item in json`.
Items(response) == IF response.ok THEN response.data ELSE <<>>

\* The execution context of one cycle: the two objects, the requests issued
\* so far, each with the response it got, and the exception in flight.  Once
\* an exception is in flight the remaining statements of the cycle are
\* skipped.
Request(c, url, top, response) ==
    [c EXCEPT !.log = Append(@, <<url, top, response>>)]
Raise(c, exception) == [c EXCEPT !.exc = exception]
Running(c) == c.exc = "none"

(***************************************************************************)
(* Record builders                                                         *)
(***************************************************************************)
\* donation.Donation / donor.Donor / badge.Badge / TeamParticipant: one JSON
\* object to one record.
Donation(json) ==
    [name |-> Get(json, "displayName"), amount |-> Get(json, "amount"),
     message |-> Get(json, "message")]
Donor(json) == [name |-> Get(json, "displayName"), amount |-> Get(json, "sumDonations")]
Badge(json) == [title |-> Get(json, "title"), badge_code |-> Get(json, "badgeCode")]
TeamParticipant(json) ==
    [name |-> Get(json, "displayName"), amount |-> Get(json, "sumDonations"),
     participant_id |-> Get(json, "participantID")]

\* is_complete defaulting to True.
create_milestone_complete_by_default(json_data) ==
    [description |-> Get(json_data, "description"),
     fundraising_goal |-> Get(json_data, "fundraisingGoal"),
     is_active |-> Get(json_data, "isActive"),
     milestone_id |-> Get(json_data, "milestoneID"),
     is_complete |-> IF "isComplete" \in DOMAIN json_data THEN json_data.isComplete ELSE TRUE,
     links |-> IF "links" \in DOMAIN json_data THEN json_data.links ELSE <<>>,
     end_date_utc |-> IF "endDateUTC" \in DOMAIN json_data THEN json_data.endDateUTC ELSE "",
     start_date_utc |-> IF "startDateUTC" \in DOMAIN json_data THEN json_data.startDateUTC ELSE ""]

create_milestone(json_data) ==
    [description |-> Get(json_data, "description"),
     fundraising_goal |-> Get(json_data, "fundraisingGoal"),
     is_active |-> Get(json_data, "isActive"),
     milestone_id |-> Get(json_data, "milestoneID"),
     is_complete |-> IF "isComplete" \in DOMAIN json_data THEN json_data.isComplete ELSE FALSE,
     links |-> IF "links" \in DOMAIN json_data THEN json_data.links ELSE <<>>,
     end_date_utc |-> IF "endDateUTC" \in DOMAIN json_data THEN json_data.endDateUTC ELSE "",
     start_date_utc |-> IF "startDateUTC" \in DOMAIN json_data THEN json_data.startDateUTC ELSE ""]

create_incentive(json_data) ==
    [amount |-> Get(json_data, "amount"),
     description |-> Get(json_data, "description"),
     incentive_id |-> Get(json_data, "incentiveID"),
     is_active |-> Get(json_data, "isActive"),
     end_date_utc |-> IF "endDateUTC" \in DOMAIN json_data THEN json_data.endDateUTC ELSE "",
     incentive_image_url |->
         IF "incentiveImageURL" \in DOMAIN json_data THEN json_data.incentiveImageURL ELSE "",
     links |-> IF "links" \in DOMAIN json_data THEN json_data.links ELSE <<>>,
     start_date_utc |-> IF "startDateUTC" \in DOMAIN json_data THEN json_data.startDateUTC ELSE "",
     quantity |-> IF "quantity" \in DOMAIN json_data THEN json_data.quantity ELSE 0,
     quantity_claimed |->
         IF "quantityClaimed" \in DOMAIN json_data THEN json_data.quantityClaimed ELSE 0]

\* team_groups.create_team_group
create_team_group(json_data) ==
    [fundraising_goal |-> Get(json_data, "fundraisingGoal"),
     group_code |-> Get(json_data, "groupCode"),
     name |-> Get(json_data, "name"),
     number_of_donations |-> Get(json_data, "numDonations"),
     number_of_participants |-> Get(json_data, "numParticipants"),
     number_of_teams |-> Get(json_data, "numTeams"),
     sum_of_donations |-> Get(json_data, "sumDonations")]

\* The three activity classes; `class` is the class of the object built.
Activity(created_date, image_url, type) ==
    [class |-> "Activity", created_date |-> created_date, image_url |-> image_url,
     type |-> type]
DonationActivity(amount, created_date, image_url, is_incentive, message, title, type) ==
    [class |-> "DonationActivity", created_date |-> created_date, image_url |-> image_url,
     type |-> type, amount |-> amount, is_incentive |-> is_incentive,
     message |-> message, title |-> title]
BadgeActivity(created_date, image_url, message, title, type) ==
    [class |-> "BadgeActivity", created_date |-> created_date, image_url |-> image_url,
     type |-> type, message |-> message, title |-> title]

\* Python truthiness of a non-empty string literal.
TruthyLiteral(literal) == literal # ""

\* `type == "participantBadge" or "teamBadge"`: the right operand of `or` is
\* the string literal itself, not a comparison.
IsBadgeType(type) == type = "participantBadge" \/ TruthyLiteral("teamBadge")

create_activity(json_data) ==
    LET amount == Get(json_data, "amount")
        created_date == Get(json_data, "createdDateUTC")
        image_url == Get(json_data, "imageURL")
        is_incentive == Get(json_data, "isIncentive")
        message == Get(json_data, "message")
        title == Get(json_data, "title")
        \* a missing type is None, which equals no string
        type == IF "type" \in DOMAIN json_data THEN json_data.type ELSE "None"
    IN  IF type = "donation"
        THEN DonationActivity(amount, created_date, image_url, is_incentive, message,
                              title, type)
        ELSE IF IsBadgeType(type)
        THEN BadgeActivity(created_date, image_url, message, title, type)
        ELSE Activity(created_date, image_url, type)

\* A date string '%Y-%m-%dT%H:%M:%S.%f%z' is its day, its hour and its UTC
\* offset in hours; a time zone is its UTC offset in hours.
\* strptime: the instant the string names, in hours.
strptime(created_date) ==
    created_date.day * 24 + created_date.hour - created_date.utc_offset

\* strftime('%x - %X') of an instant seen in a time zone: the local day and
\* the local hour.
strftime(instant, time_zone) ==
    <<(instant + time_zone) \div 24, " - ", (instant + time_zone) % 24>>

\* Activity.better_date; my_time_zone is datetime.now().astimezone().tzinfo,
\* the zone the process runs in at the moment of the call.
better_date(activity, my_time_zone) ==
    strftime(strptime(activity.created_date), my_time_zone)

\* __str__ of the three activity classes.
__str__(activity, my_time_zone) ==
    CASE activity.class = "DonationActivity" ->
             IF activity.is_incentive
             THEN <<better_date(activity, my_time_zone), " - Incentive reached: ",
                    activity.message, " with ", activity.title, " donation of $",
                    activity.amount, ".">>
             ELSE <<better_date(activity, my_time_zone), "- ", activity.title,
                    " donation in the amount of $", activity.amount, ".">>
      [] activity.class = "BadgeActivity" ->
             <<better_date(activity, my_time_zone), "- ", activity.message, ": '",
               activity.title, "' badge earned!!">>
      [] activity.class = "Activity" ->
             <<better_date(activity, my_time_zone), " - An activity of type ",
               activity.type, " created ">>

(***************************************************************************)
(* comms.get_donations(previous, url, is_donation, top) and                *)
(* comms.get_badges(url)                                                   *)
(***************************************************************************)
\* The list built from a successful fetch (an empty result is a valid empty
\* list); the list passed in when the fetch failed.
get_donations(donations_or_donors, response, is_donation) ==
    IF ~response.ok THEN donations_or_donors
    ELSE IF is_donation THEN [i \in 1..Len(response.data) |-> Donation(response.data[i])]
    ELSE [i \in 1..Len(response.data) |-> Donor(response.data[i])]

\* get_badges is handed the URL only: what it returns cannot depend on the
\* badges held before.
get_badges(response) == [i \in 1..Len(Items(response)) |-> Badge(Items(response)[i])]

(***************************************************************************)
(* Team (api/team.py)                                                      *)
(***************************************************************************)
\* Display strings are sequences of their parts.
NoDonationsYet == <<"No Donations Yet">>
NoDonorsYet == <<"No Donors Yet">>
NoParticipants == <<"No participants.">>

Team(team_id, output_folder, currency_symbol, donors_to_display, base_api_url) ==
    [_team_id |-> team_id,
     _team_url |-> <<base_api_url, "teams", team_id>>,
     _team_participant_url |-> <<base_api_url, "teams", team_id, "participants">>,
     _team_donation_url |-> <<base_api_url, "teams", team_id, "donations">>,
     _output_folder |-> output_folder,
     _currency_symbol |-> currency_symbol,
     _donors_to_display |-> donors_to_display,
     _team_info |-> <<>>,
     _team_goal |-> 0,
     _team_captain |-> "",
     _total_raised |-> 0,
     _num_donations |-> 0,
     _team_avatar_image |-> "",
     _participant_calculation_dict |-> <<>>,
     _top_5_participant_list |-> <<>>,
     _participant_list |-> <<>>,
     _donation_list |-> <<>>,
     _donation_formatted_output |->
         [Team_LastDonationNameAmnt |-> NoDonationsYet,
          Team_lastNDonationNameAmts |-> NoDonationsYet,
          Team_lastNDonationNameAmtsMessage |-> NoDonationsYet,
          Team_lastNDonationNameAmtsMessageHorizontal |-> NoDonationsYet,
          Team_lastNDonationNameAmtsHorizontal |-> NoDonationsYet],
     _badge_url |-> <<base_api_url, "teams", team_id, "badges">>,
     _badges |-> <<>>,
     _activity_url |-> <<base_api_url, "teams", team_id, "activity">>,
     _activity_list |-> <<>>]

\* The team_avatar_image property: "" for a falsy value.
team_avatar_image(t) == IF t._team_avatar_image = "" THEN "" ELSE t._team_avatar_image

\* What _get_team_json returns: the five values of the team JSON, or the
\* five values held when the JSON is falsy.
_get_team_json(t, team_json) ==
    IF Truthy(team_json)
    THEN [team_goal |-> GetNumber(team_json.data, "fundraisingGoal"),
          team_captain |-> Get(team_json.data, "captainDisplayName"),
          total_raised |-> GetNumber(team_json.data, "sumDonations"),
          num_donations |-> GetNumber(team_json.data, "numDonations"),
          team_avatar_image |-> Get(team_json.data, "avatarImageURL")]
    ELSE [team_goal |-> t._team_goal,
          team_captain |-> t._team_captain,
          total_raised |-> t._total_raised,
          num_donations |-> t._num_donations,
          team_avatar_image |-> team_avatar_image(t)]

_update_team_dictionary(t) ==
    [t EXCEPT !._team_info =
        [Team_goal |-> FormatCurrency(t._currency_symbol, t._team_goal),
         Team_captain |-> t._team_captain,
         Team_totalRaised |-> FormatCurrency(t._currency_symbol, t._total_raised),
         Team_numDonations |-> <<"str", t._num_donations>>]]

\* _update_team_dictionary as team_api_info calls it: f"{None:,.2f}" raises
\* TypeError, and the entries assigned before it stay.
update_team_dictionary(c) ==
    IF c.t._team_goal = NoneNumber THEN Raise(c, "TypeError")
    ELSE IF c.t._total_raised = NoneNumber
    THEN Raise([c EXCEPT !.t._team_info =
                   [k \in DOMAIN c.t._team_info \cup {"Team_goal", "Team_captain"} |->
                       IF k = "Team_goal"
                       THEN FormatCurrency(c.t._currency_symbol, c.t._team_goal)
                       ELSE IF k = "Team_captain" THEN c.t._team_captain
                       ELSE c.t._team_info[k]]],
               "TypeError")
    ELSE [c EXCEPT !.t = _update_team_dictionary(c.t)]

\* Team._update_badges
team_update_badges(c, response) ==
    IF Running(c)
    THEN [Request(c, c.t._badge_url, FALSE, response) EXCEPT !.t._badges =
             get_badges(response)]
    ELSE c

\* The tuple assignment of team_api_info.
set_team_attributes(t, got) ==
    [t EXCEPT !._team_goal = got.team_goal,
              !._team_captain = got.team_captain,
              !._total_raised = got.total_raised,
              !._num_donations = got.num_donations,
              !._team_avatar_image = got.team_avatar_image]

\* team_api_info that fetches and updates only while no donation is held.
team_api_info_once(c, team_json, badges_json) ==
    IF c.t._num_donations > 0 THEN c
    ELSE team_update_badges(
             update_team_dictionary(
                 [Request(c, c.t._team_url, FALSE, team_json) EXCEPT !.t =
                     set_team_attributes(c.t, _get_team_json(c.t, team_json))]),
             badges_json)

team_api_info(c, team_json, badges_json) ==
    team_update_badges(
        update_team_dictionary(
            [Request(c, c.t._team_url, FALSE, team_json) EXCEPT !.t =
                set_team_attributes(c.t, _get_team_json(c.t, team_json))]),
        badges_json)

\* _get_participants that falls back on the other list.
_get_participants_other_list(t, top5, team_participant_json) ==
    IF Truthy(team_participant_json)
    THEN [i \in 1..Len(team_participant_json.data) |->
             TeamParticipant(team_participant_json.data[i])]
    ELSE IF top5 THEN t._participant_list ELSE t._top_5_participant_list

\* The list _get_participants returns for a response.
_get_participants(t, top5, team_participant_json) ==
    IF Truthy(team_participant_json)
    THEN [i \in 1..Len(team_participant_json.data) |-> TeamParticipant(team_participant_json.data[i])]
    ELSE IF top5 THEN t._top_5_participant_list ELSE t._participant_list

\* f"{name} - ${amount:,.2f}" of the first of the top 5, or the placeholder.
_top_participant(t) ==
    IF Len(t._top_5_participant_list) # 0
    THEN <<t._top_5_participant_list[1].name, " - ",
           FormatCurrency("$", t._top_5_participant_list[1].amount)>>
    ELSE NoParticipants

\* comms.multiple_format(list, message, horizontal, symbol, n): the layout,
\* then the first n records, each as name and formatted amount.
RECURSIVE FormatEach(_, _)
FormatEach(records, symbol) ==
    IF records = <<>> THEN <<>>
    ELSE <<<<Head(records).name, FormatCurrency(symbol, Head(records).amount)>>>>
         \o FormatEach(Tail(records), symbol)
multiple_format(records, message, horizontal, currency_symbol, n) ==
    <<IF horizontal THEN "horizontal" ELSE "vertical",
      IF message THEN "message" ELSE "no message">>
    \o FormatEach(SubSeq(records, 1, IF Len(records) < n THEN Len(records) ELSE n),
                  currency_symbol)

_participant_calculations(t) ==
    [t EXCEPT !._participant_calculation_dict =
        [Team_TopParticipantNameAmnt |-> _top_participant(t),
         Team_Top5ParticipantsHorizontal |->
             multiple_format(t._top_5_participant_list, FALSE, TRUE, t._currency_symbol, 5),
         Team_Top5Participants |->
             multiple_format(t._top_5_participant_list, FALSE, FALSE, t._currency_symbol, 5)]]

\* The three statements of participant_run.
set_participant_list(c, participants_json) ==
    [Request(c, c.t._team_participant_url, FALSE, participants_json) EXCEPT !.t._participant_list =
        _get_participants(c.t, FALSE, participants_json)]
\* The top-5 statement asking again when the fetch failed.
set_top_5_participant_list_retry(c, top5_json) ==
    [Request(IF top5_json.ok THEN c
             ELSE Request(c, c.t._team_participant_url, TRUE, top5_json),
             c.t._team_participant_url, TRUE, top5_json) EXCEPT !.t._top_5_participant_list =
        _get_participants(c.t, TRUE, top5_json)]
set_top_5_participant_list(c, top5_json) ==
    [Request(c, c.t._team_participant_url, TRUE, top5_json) EXCEPT !.t._top_5_participant_list =
        _get_participants(c.t, TRUE, top5_json)]
participant_calculations(c) == [c EXCEPT !.t = _participant_calculations(c.t)]

participant_run(c, participants_json, top5_json) ==
    participant_calculations(
        set_top_5_participant_list(set_participant_list(c, participants_json), top5_json))

\* comms.format_information_for_output(list, symbol, n, team): the fixed keys
\* of a donation view, from the most recent record and the first n records.
format_information_for_output(records, currency_symbol, donors_to_display, team) ==
    [team |-> team,
     last |-> IF records = <<>> THEN NoDonationsYet
              ELSE <<records[1].name, FormatCurrency(currency_symbol, records[1].amount)>>,
     lastN |-> IF records = <<>> THEN NoDonationsYet
               ELSE multiple_format(records, FALSE, FALSE, currency_symbol, donors_to_display)]

\* `if self._donation_list:` of donation_run.
format_team_donations(t) ==
    IF t._donation_list # <<>>
    THEN [t EXCEPT !._donation_formatted_output =
             format_information_for_output(t._donation_list, t._currency_symbol,
                                           t._donors_to_display, TRUE)]
    ELSE t

donation_run(c, donations_json) ==
    [Request(c, c.t._team_donation_url, FALSE, donations_json) EXCEPT !.t =
        format_team_donations(
            [c.t EXCEPT !._donation_list =
                get_donations(c.t._donation_list, donations_json, TRUE)])]

\* team_refresh with >= for >: an unchanged count passes.
team_refresh_unchanged_count(number_of_donations, t) ==
    t._num_donations >= number_of_donations

\* team_refresh that also passes while the participant views were never
\* filled: a first-cycle state for the team.
team_refresh_first_cycle(number_of_donations, t) ==
    t._num_donations > number_of_donations \/ t._participant_calculation_dict = <<>>

\* Whether team_run goes on to participant_run and donation_run.
team_refresh(number_of_donations, t) == t._num_donations > number_of_donations

\* team_run after team_api_info; number_of_donations is the count held
\* before it.
team_refresh_block(number_of_donations, c, r) ==
    IF ~Running(c) THEN c
    ELSE IF c.t._num_donations = NoneNumber \/ number_of_donations = NoneNumber
    THEN Raise(c, "TypeError")
    ELSE IF team_refresh(number_of_donations, c.t)
    THEN donation_run(participant_run(c, r.team_participants, r.team_top5),
                      r.team_donations)
    ELSE c

\* r: the responses to the requests of one team cycle.
team_run(c, r) ==
    team_refresh_block(c.t._num_donations, team_api_info(c, r.team, r.team_badges), r)

(***************************************************************************)
(* Participant (api/participant.py)                                        *)
(***************************************************************************)
\* Participant.__init__ up to the call of set_config_values.
ParticipantFields(donor_drive_id, text_folder, currency_symbol, team_id, donors_to_display, base_api_url) ==
    [_donor_drive_id |-> donor_drive_id,
     _text_folder |-> text_folder,
     _currency_symbol |-> currency_symbol,
     _team_id |-> team_id,
     _donors_to_display |-> donors_to_display,
     _base_api_url |-> base_api_url,
     _participant_url |-> <<>>,
     _donation_url |-> <<>>,
     _participant_donor_url |-> <<>>,
     _total_raised |-> 0,
     _number_of_donations |-> 0,
     _average_donation |-> Number(0),
     _goal |-> 0,
     _avatar_image_url |-> "",
     _event_name |-> "",
     _donation_link_url |-> "",
     _stream_url |-> "",
     _extra_life_page_url |-> "",
     _created_date_utc |-> "",
     _stream_is_live |-> FALSE,
     _sum_pledges |-> 0,
     _team_name |-> "",
     _is_team_captain |-> FALSE,
     _display_name |-> "",
     _participant_formatted_output |->
         [totalRaised |-> FormatCurrency(currency_symbol, 0),
          averageDonation |-> FormatCurrency(currency_symbol, 0),
          goal |-> FormatCurrency(currency_symbol, 0)],
     _donation_list |-> <<>>,
     _ordered_donation_list |-> <<>>,
     _top_donation |-> None,
     _top_donation_formatted_output |-> [TopDonationNameAmnt |-> NoDonationsYet],
     _donation_formatted_output |->
         [LastDonationNameAmnt |-> NoDonationsYet,
          lastNDonationNameAmts |-> NoDonationsYet,
          lastNDonationNameAmtsMessage |-> NoDonationsYet,
          lastNDonationNameAmtsMessageHorizontal |-> NoDonationsYet,
          lastNDonationNameAmtsHorizontal |-> NoDonationsYet],
     _top_donor |-> None,
     _top_donor_formatted_output |-> [TopDonorNameAmnt |-> NoDonorsYet],
     _donor_list |-> <<>>,
     _ordered_donor_list |-> <<>>,
     _donor_formatted_output |->
         [LastDonorNameAmnt |-> NoDonationsYet,
          lastNDonorNameAmts |-> NoDonationsYet,
          lastNDonorNameAmtsMessage |-> NoDonationsYet,
          lastNDonorNameAmtsMessageHorizontal |-> NoDonationsYet,
          lastNDonorNameAmtsHorizontal |-> NoDonationsYet],
     _badge_url |-> <<>>,
     _badges |-> <<>>,
     _milestone_url |-> <<>>,
     _milestones |-> <<>>,
     _incentive_url |-> <<>>,
     _incentives |-> <<>>,
     _activity_url |-> <<>>,
     _activities |-> <<>>,
     _first_run |-> TRUE,
     _new_donation |-> FALSE,
     _text_files_exist |-> FALSE]

\* c.p is the participant, c.t its _my_team attribute.
set_config_values(c) ==
    LET url == <<c.p._base_api_url, "participants", c.p._donor_drive_id>>
        p1 == [c.p EXCEPT !._participant_url = url,
                          !._donation_url = Append(url, "donations"),
                          !._participant_donor_url = Append(url, "donors"),
                          !._badge_url = Append(url, "badges"),
                          !._milestone_url = Append(url, "milestones"),
                          !._incentive_url = Append(url, "incentives"),
                          !._activity_url = Append(url, "activity")]
    IN  [c EXCEPT !.p = p1,
                  !.t = IF p1._team_id # ""
                        THEN Team(p1._team_id, p1._text_folder, p1._currency_symbol,
                                  p1._donors_to_display, p1._base_api_url)
                        ELSE c.t]

\* Participant.__init__: the object and its team, as one context.
Participant(donor_drive_id, text_folder, currency_symbol, team_id, donors_to_display, base_api_url) ==
    set_config_values(
        [p |-> ParticipantFields(donor_drive_id, text_folder, currency_symbol, team_id,
                                 donors_to_display, base_api_url),
         t |-> None, log |-> <<>>, exc |-> "none"])

\* The avatar_image_url property: "" for a falsy value.
avatar_image_url(p) == IF p._avatar_image_url = "" THEN "" ELSE p._avatar_image_url

\* _get_participant_info that answers a falsy JSON with the values of a new
\* participant instead of the values held.
_get_participant_info_no_fallback(p, has_team, participant_json) ==
    IF ~Truthy(participant_json)
    THEN [total_raised |-> 0,
          number_of_donations |-> 0,
          goal |-> 0,
          avatar_image_url |-> "",
          event_name |-> "",
          donation_link_url |-> "",
          stream_url |-> "",
          extra_life_page_url |-> "",
          created_date_utc |-> "",
          stream_is_live |-> FALSE,
          sum_pledges |-> 0,
          team_name |-> "",
          is_team_captain |-> FALSE,
          display_name |-> ""]
    ELSE LET json == participant_json.data
         IN  [total_raised |-> GetNumber(json, "sumDonations"),
              number_of_donations |-> GetNumber(json, "numDonations"),
              goal |-> GetNumber(json, "fundraisingGoal"),
              avatar_image_url |-> Get(json, "avatarImageURL"),
              event_name |-> Get(json, "eventName"),
              donation_link_url |-> Get(Get(json, "links"), "donate"),
              stream_url |-> Get(Get(json, "links"), "stream"),
              extra_life_page_url |-> Get(Get(json, "links"), "page"),
              created_date_utc |-> Get(json, "createdDateUTC"),
              stream_is_live |-> Get(json, "streamIsLive"),
              sum_pledges |-> Get(json, "sumPledges"),
              team_name |-> IF has_team THEN Get(json, "teamName") ELSE "",
              is_team_captain |-> IF has_team THEN Get(json, "isTeamCaptain") ELSE FALSE,
              display_name |-> Get(json, "displayName")]

\* What _get_participant_info returns: the fourteen values of the JSON, or
\* the fourteen values held when the JSON is falsy.
_get_participant_info(p, has_team, participant_json) ==
    IF ~Truthy(participant_json)
    THEN [total_raised |-> p._total_raised,
          number_of_donations |-> p._number_of_donations,
          goal |-> p._goal,
          avatar_image_url |-> avatar_image_url(p),
          event_name |-> p._event_name,
          donation_link_url |-> p._donation_link_url,
          stream_url |-> p._stream_url,
          extra_life_page_url |-> p._extra_life_page_url,
          created_date_utc |-> p._created_date_utc,
          stream_is_live |-> p._stream_is_live,
          sum_pledges |-> p._sum_pledges,
          team_name |-> p._team_name,
          is_team_captain |-> p._is_team_captain,
          display_name |-> p._display_name]
    ELSE LET json == participant_json.data
         IN  [total_raised |-> GetNumber(json, "sumDonations"),
              number_of_donations |-> GetNumber(json, "numDonations"),
              goal |-> GetNumber(json, "fundraisingGoal"),
              avatar_image_url |-> Get(json, "avatarImageURL"),
              event_name |-> Get(json, "eventName"),
              donation_link_url |-> Get(Get(json, "links"), "donate"),
              stream_url |-> Get(Get(json, "links"), "stream"),
              extra_life_page_url |-> Get(Get(json, "links"), "page"),
              created_date_utc |-> Get(json, "createdDateUTC"),
              stream_is_live |-> Get(json, "streamIsLive"),
              sum_pledges |-> Get(json, "sumPledges"),
              team_name |-> IF has_team THEN Get(json, "teamName") ELSE "",
              is_team_captain |-> IF has_team THEN Get(json, "isTeamCaptain") ELSE FALSE,
              display_name |-> Get(json, "displayName")]

\* total_raised / number_of_donations, or 0 on ZeroDivisionError.
\* _calculate_average_donation with floor division.
_calculate_average_donation_floor(p) ==
    IF p._number_of_donations = 0 THEN Number(0)
    ELSE Number(p._total_raised \div p._number_of_donations)

_calculate_average_donation(p) ==
    IF p._number_of_donations = 0 THEN Number(0)
    ELSE TrueDiv(p._total_raised, p._number_of_donations)

\* The tuple assignment of update_participant_attributes.
set_participant_attributes(p, got) ==
    [p EXCEPT !._total_raised = got.total_raised,
              !._number_of_donations = got.number_of_donations,
              !._goal = got.goal,
              !._avatar_image_url = got.avatar_image_url,
              !._event_name = got.event_name,
              !._donation_link_url = got.donation_link_url,
              !._stream_url = got.stream_url,
              !._extra_life_page_url = got.extra_life_page_url,
              !._created_date_utc = got.created_date_utc,
              !._stream_is_live = got.stream_is_live,
              !._sum_pledges = got.sum_pledges,
              !._team_name = got.team_name,
              !._is_team_captain = got.is_team_captain,
              !._display_name = got.display_name]

\* `self._average_donation = self._calculate_average_donation()`
set_average_donation(p) == [p EXCEPT !._average_donation = _calculate_average_donation(p)]

\* `participant_json.get('links').get("donate")`: None has no get.
links_missing(participant_json) ==
    Truthy(participant_json) /\ "links" \notin DOMAIN participant_json.data

\* The second statement of update_participant_attributes: None / n and
\* n / None raise TypeError, which _calculate_average_donation lets through.
calculate_average_donation(c) ==
    IF c.p._total_raised = NoneNumber \/ c.p._number_of_donations = NoneNumber
    THEN Raise(c, "TypeError")
    ELSE [c EXCEPT !.p = set_average_donation(c.p)]

update_participant_attributes(c, participant_json) ==
    IF links_missing(participant_json)
    THEN Raise(Request(c, c.p._participant_url, FALSE, participant_json), "AttributeError")
    ELSE calculate_average_donation(
             [Request(c, c.p._participant_url, FALSE, participant_json) EXCEPT !.p =
                 set_participant_attributes(
                     c.p, _get_participant_info(c.p, c.t # None, participant_json))])

\* The statements of update_donation_data under its condition.
set_donation_list(c, donations_json) ==
    [Request(c, c.p._donation_url, FALSE, donations_json) EXCEPT !.p._donation_list =
        get_donations(c.p._donation_list, donations_json, TRUE)]
\* _get_top_donations
set_ordered_donation_list(c, top_donations_json) ==
    [Request(c, c.p._donation_url, TRUE, top_donations_json) EXCEPT !.p._ordered_donation_list =
        get_donations(c.p._ordered_donation_list, top_donations_json, TRUE)]
\* try: _top_donation = _ordered_donation_list[0]; except IndexError: pass
set_top_donation(c) ==
    IF c.p._ordered_donation_list # <<>>
    THEN [c EXCEPT !.p._top_donation = c.p._ordered_donation_list[1]]
    ELSE c

\* update_donation_data without the test of the count.
update_donation_data_any_count(c, donations_json, top_donations_json) ==
    IF ~Running(c) THEN c
    ELSE set_top_donation(
             set_ordered_donation_list(set_donation_list(c, donations_json),
                                       top_donations_json))

update_donation_data(c, donations_json, top_donations_json) ==
    IF ~Running(c) \/ ~(c.p._number_of_donations > 0) THEN c
    ELSE set_top_donation(
             set_ordered_donation_list(set_donation_list(c, donations_json),
                                       top_donations_json))

\* _get_donors: the list handed to get_donations is _ordered_donor_list.
set_donor_list(c, donors_json) ==
    [Request(c, c.p._participant_donor_url, FALSE, donors_json) EXCEPT !.p._donor_list =
        get_donations(c.p._ordered_donor_list, donors_json, FALSE)]
\* _get_top_donors
set_ordered_donor_list(c, top_donors_json) ==
    [Request(c, c.p._participant_donor_url, TRUE, top_donors_json) EXCEPT !.p._ordered_donor_list =
        get_donations(c.p._ordered_donor_list, top_donors_json, FALSE)]
\* _top_donor = _ordered_donor_list[0], outside any try
set_top_donor(c) ==
    IF c.p._ordered_donor_list = <<>> THEN Raise(c, "IndexError")
    ELSE [c EXCEPT !.p._top_donor = c.p._ordered_donor_list[1]]
\* `if self._donor_list:` and its block
top_donor_block(c, top_donors_json) ==
    IF c.p._donor_list = <<>> THEN c
    ELSE set_top_donor(set_ordered_donor_list(c, top_donors_json))

update_donor_data(c, donors_json, top_donors_json) ==
    IF ~Running(c) \/ ~(c.p._number_of_donations > 0) THEN c
    ELSE top_donor_block(set_donor_list(c, donors_json), top_donors_json)

\* Participant._update_badges
_update_badges(c, badges_json) ==
    IF ~Running(c) THEN c
    ELSE [Request(c, c.p._badge_url, FALSE, badges_json) EXCEPT !.p._badges = get_badges(badges_json)]

_update_milestones(c, json_response) ==
    IF ~Running(c) THEN c
    ELSE [Request(c, c.p._milestone_url, FALSE, json_response) EXCEPT !.p._milestones =
             [i \in 1..Len(Items(json_response)) |-> create_milestone(Items(json_response)[i])]]

_update_incentives(c, json_response) ==
    IF ~Running(c) THEN c
    ELSE [Request(c, c.p._incentive_url, FALSE, json_response) EXCEPT !.p._incentives =
             [i \in 1..Len(Items(json_response)) |-> create_incentive(Items(json_response)[i])]]

\* Participant._update_activities
_update_activities(c, json_response) ==
    IF ~Running(c) THEN c
    ELSE [Request(c, c.p._activity_url, FALSE, json_response) EXCEPT !.p._activities =
             [i \in 1..Len(Items(json_response)) |-> create_activity(Items(json_response)[i])]]

\* refresh with >= for >: an unchanged count passes.
refresh_unchanged_count(number_of_donations, p) ==
    p._first_run \/ p._number_of_donations >= number_of_donations

\* The condition of run's refresh block.
refresh(number_of_donations, p) ==
    p._first_run \/ p._number_of_donations > number_of_donations

\* mark_new_donation without the test of _first_run.
mark_new_donation_on_first_run(c) == [c EXCEPT !.p._new_donation = TRUE]

\* `if not self._first_run: self._new_donation = True`
mark_new_donation(c) ==
    IF ~c.p._first_run THEN [c EXCEPT !.p._new_donation = TRUE] ELSE c

\* run's refresh block; number_of_donations is the count held when run began.
refresh_block(number_of_donations, c, r) ==
    IF Running(c) /\ refresh(number_of_donations, c.p)
    THEN _update_milestones(
             _update_badges(
                 update_donor_data(
                     update_donation_data(mark_new_donation(c), r.donations,
                                          r.top_donations),
                     r.donors, r.top_donors),
                 r.badges),
             r.milestones)
    ELSE c

\* The team block of run.
team_block(c, r) == IF Running(c) /\ c.p._team_id # "" THEN team_run(c, r) ELSE c

\* clear_first_run that leaves the flag alone.
clear_first_run_skipped(c) == c

\* `self._first_run = False`, the last assignment of run.
clear_first_run(c) == IF Running(c) THEN [c EXCEPT !.p._first_run = FALSE] ELSE c

\* r: the responses to the requests of one cycle.
run(c, r) ==
    clear_first_run(
        team_block(
            refresh_block(
                c.p._number_of_donations,
                _update_activities(
                    _update_incentives(update_participant_attributes(c, r.participant),
                                       r.incentives),
                    r.activities),
                r),
            r))

(***************************************************************************)
(* What the server may answer                                              *)
(***************************************************************************)
ParticipantJSON(sumDonations, numDonations) ==
    [sumDonations |-> sumDonations, numDonations |-> numDonations,
     fundraisingGoal |-> 500, avatarImageURL |-> "avatar.png", eventName |-> "Extra Life",
     links |-> [donate |-> "donate", stream |-> "stream", page |-> "page"],
     createdDateUTC |-> "2020-01-01", streamIsLive |-> TRUE, sumPledges |-> 7,
     teamName |-> "Team", isTeamCaptain |-> TRUE, displayName |-> "Player"]

\* <<sumDonations, numDonations>> of the participant payloads.
ParticipantTotals == {<<0, 0>>, <<100, 1>>, <<100, 3>>, <<150, 3>>}

DonationJSON(name, amount) == [displayName |-> name, amount |-> amount, message |-> ""]
DonorJSON(name, sum) == [displayName |-> name, sumDonations |-> sum]
TeamParticipantJSON(name, sum) ==
    [displayName |-> name, sumDonations |-> sum, participantID |-> name]
TeamJSON(sumDonations, numDonations) ==
    [fundraisingGoal |-> 1000, captainDisplayName |-> "Captain",
     sumDonations |-> sumDonations, numDonations |-> numDonations,
     avatarImageURL |-> "team.png"]
TeamTotals == {<<0, 0>>, <<50, 5>>, <<60, 5>>, <<1200, 6>>}

ActivityJSON(type) ==
    [amount |-> 25, createdDateUTC |-> "2020-01-01", imageURL |-> "image.png",
     isIncentive |-> FALSE, message |-> "message", title |-> "title", type |-> type]
\* An activity object without a type key.
UntypedActivityJSON == [createdDateUTC |-> "2020-01-01", imageURL |-> "image.png"]

\* A list endpoint answers with a failure, an empty list or a list.
ListResponses(json_list) == {Failure, Ok(<<>>), Ok(json_list)}
\* For a list that is rebuilt by iterating over the answer, a failure and an
\* empty list are one case.
IteratedResponses(json_list) == {Failure, Ok(json_list)}

\* The responses each endpoint may give, by the name used in run and team_run.
Responses ==
    [participant |-> {Failure} \cup {Ok(ParticipantJSON(x[1], x[2])) : x \in ParticipantTotals},
     incentives |-> IteratedResponses(<<[amount |-> 20, description |-> "incentive",
                                     incentiveID |-> "i1", isActive |-> TRUE]>>),
     activities |-> IteratedResponses(<<ActivityJSON("donation"), ActivityJSON("participantBadge"),
                                    ActivityJSON("teamBadge"), ActivityJSON("somethingElse"),
                                    UntypedActivityJSON>>),
     donations |-> ListResponses(<<DonationJSON("Bob", 5), DonationJSON("Ann", 10)>>),
     top_donations |-> ListResponses(<<DonationJSON("Ann", 10), DonationJSON("Bob", 5)>>),
     donors |-> ListResponses(<<DonorJSON("Bob", 5), DonorJSON("Ann", 10)>>),
     top_donors |-> ListResponses(<<DonorJSON("Ann", 10), DonorJSON("Bob", 5)>>),
     badges |-> IteratedResponses(<<[title |-> "badge", badgeCode |-> "b1"]>>),
     milestones |-> IteratedResponses(<<[description |-> "milestone", fundraisingGoal |-> 100,
                                     isActive |-> TRUE, milestoneID |-> "m1"]>>),
     team |-> {Failure} \cup {Ok(TeamJSON(x[1], x[2])) : x \in TeamTotals},
     team_badges |-> IteratedResponses(<<[title |-> "team badge", badgeCode |-> "tb1"]>>),
     team_participants |-> ListResponses(<<TeamParticipantJSON("Bob", 20),
                                           TeamParticipantJSON("Ann", 1200)>>),
     team_top5 |-> ListResponses(<<TeamParticipantJSON("Ann", 1200),
                                   TeamParticipantJSON("Bob", 20),
                                   TeamParticipantJSON("Cid", 20),
                                   TeamParticipantJSON("Dee", 10),
                                   TeamParticipantJSON("Eli", 5),
                                   TeamParticipantJSON("Fay", 1)>>),
     team_donations |-> ListResponses(<<DonationJSON("Bob", 5), DonationJSON("Ann", 10)>>)]

\* The endpoints in the order a cycle may ask them.
Endpoints ==
    <<"participant", "incentives", "activities", "donations", "top_donations", "donors",
      "top_donors", "badges", "milestones", "team", "team_badges", "team_participants",
      "team_top5", "team_donations">>

\* The request <<url, top flag>> that asks an endpoint, for the objects of c.
RequestOf(c, endpoint) ==
    CASE endpoint = "participant" -> <<c.p._participant_url, FALSE>>
      [] endpoint = "incentives" -> <<c.p._incentive_url, FALSE>>
      [] endpoint = "activities" -> <<c.p._activity_url, FALSE>>
      [] endpoint = "donations" -> <<c.p._donation_url, FALSE>>
      [] endpoint = "top_donations" -> <<c.p._donation_url, TRUE>>
      [] endpoint = "donors" -> <<c.p._participant_donor_url, FALSE>>
      [] endpoint = "top_donors" -> <<c.p._participant_donor_url, TRUE>>
      [] endpoint = "badges" -> <<c.p._badge_url, FALSE>>
      [] endpoint = "milestones" -> <<c.p._milestone_url, FALSE>>
      [] endpoint = "team" -> <<c.t._team_url, FALSE>>
      [] endpoint = "team_badges" -> <<c.t._badge_url, FALSE>>
      [] endpoint = "team_participants" -> <<c.t._team_participant_url, FALSE>>
      [] endpoint = "team_top5" -> <<c.t._team_participant_url, TRUE>>
      [] endpoint = "team_donations" -> <<c.t._team_donation_url, FALSE>>

IsTeamEndpoint(endpoint) ==
    endpoint \in {"team", "team_badges", "team_participants", "team_top5", "team_donations"}

\* Whether the requests of log include the one that asks the endpoint.
Asked(c, log, endpoint) ==
    /\ IF IsTeamEndpoint(endpoint) THEN c.t # None ELSE c.p # None
    /\ \E i \in 1..Len(log) : <<log[i][1], log[i][2]>> = RequestOf(c, endpoint)

\* Whether the request of log that asks the endpoint failed.
Failed(c, log, endpoint) ==
    /\ IF IsTeamEndpoint(endpoint) THEN c.t # None ELSE c.p # None
    /\ \E i \in 1..Len(log) :
          <<log[i][1], log[i][2]>> = RequestOf(c, endpoint) /\ ~log[i][3].ok

\* Whether the request of log that asks the endpoint was answered with an
\* empty collection.
Empty(c, log, endpoint) ==
    /\ IF IsTeamEndpoint(endpoint) THEN c.t # None ELSE c.p # None
    /\ \E i \in 1..Len(log) :
          /\ <<log[i][1], log[i][2]>> = RequestOf(c, endpoint)
          /\ log[i][3] = Ok(<<>>)

\* The response to the request of log that asks the endpoint.
Fetched(c, log, endpoint) ==
    log[CHOOSE i \in 1..Len(log) : <<log[i][1], log[i][2]>> = RequestOf(c, endpoint)][3]

\* No endpoint answered yet.
NoResponses == [e \in {Endpoints[i] : i \in 1..Len(Endpoints)} |-> NotAsked]

\* The cycle run by the object(s) of c: Participant.run, or Team.team_run for
\* a stand-alone team.
Cycle(c, r) == IF c.p # None THEN run(c, r) ELSE team_run(c, r)

\* A fault is an answer other than a non-empty result: a failure or an
\* empty list.
IsFault(response) == ~Truthy(response)
Faults(r) == Cardinality({e \in DOMAIN r : r[e] # NotAsked /\ IsFault(r[e])})

\* The responses an endpoint may give in a cycle that has issued the requests
\* of log and got the answers r so far: one of its responses when the cycle
\* asks it (a non-empty result once MaxFaults answers were faults), none
\* otherwise.
Answers(c, log, r, endpoint) ==
    IF ~Asked(c, log, endpoint) THEN {NotAsked}
    ELSE IF Faults(r) < MaxFaults THEN Responses[endpoint]
    ELSE {a \in Responses[endpoint] : ~IsFault(a)}

\* The answers to a cycle of c, given the answers r to the endpoints before
\* the k-th: every endpoint the cycle asks is answered, in the order it is
\* asked, and no other.
RECURSIVE CycleAnswers(_, _, _)
CycleAnswers(c, r, k) ==
    IF k > Len(Endpoints) THEN {r}
    ELSE UNION {CycleAnswers(c, [r EXCEPT ![Endpoints[k]] = a], k + 1) :
                    a \in Answers(c, Cycle(c, r).log, r, Endpoints[k])}

(***************************************************************************)
(* The state machine                                                       *)
(***************************************************************************)
\* The context a cycle starts from.
Context == [p |-> participant, t |-> my_team, log |-> <<>>, exc |-> "none"]

\* A participant without a team, as the polling loop of participant.py
\* builds it.
Init ==
    LET c == Participant("478153", "output", "$", "", 5, "https://www.extra-life.org/api")
    IN  /\ participant = c.p
        /\ my_team = c.t
        /\ requests = <<>>
        /\ raised = "none"
        /\ cycle = 0
        /\ created = None

\* The currency symbols a team is configured with.
CurrencySymbols == {"$", "EUR"}

\* A stand-alone team, as team.py's own entry point builds it.
InitTeam ==
    /\ participant = None
    /\ \E currency_symbol \in CurrencySymbols :
          my_team = Team("44013", "output", currency_symbol, 5,
                         "https://www.extra-life.org/api")
    /\ requests = <<>>
    /\ raised = "none"
    /\ cycle = 0
    /\ created = None

\* A participant configured with a team, as the polling loop builds it when
\* the configuration names one.
InitOwned ==
    LET c == Participant("478153", "output", "$", "44013", 5, "https://www.extra-life.org/api")
    IN  /\ participant = c.p
        /\ my_team = c.t
        /\ requests = <<>>
        /\ raised = "none"
        /\ cycle = 0
        /\ created = None

\* The cycle answered by r, from the current state.
RunWith(r) ==
    \E c \in {Cycle(Context, r)} :
        /\ participant' = c.p
        /\ my_team' = c.t
        /\ requests' = c.log
        /\ raised' = c.exc
        /\ cycle' = cycle + 1
        /\ UNCHANGED created

\* One pass of the polling loop: p.run().  An exception that escapes run
\* ends the loop.
Run ==
    /\ participant # None
    /\ raised = "none"
    /\ cycle < (IF my_team = None THEN MaxCycles ELSE MaxOwnedCycles)
    /\ \E r \in CycleAnswers(Context, NoResponses, 1) : RunWith(r)

\* The new_donation setter, called by the owner of the participant.
SetNewDonation ==
    /\ participant # None
    /\ raised = "none"
    /\ \E new_donation_status \in BOOLEAN :
          participant' = [participant EXCEPT !._new_donation = new_donation_status]
    /\ UNCHANGED <<my_team, requests, raised, cycle, created>>

\* The public method set_config_values, called by the owner of the
\* participant after construction.
SetConfigValues ==
    /\ participant # None
    /\ raised = "none"
    /\ \E c \in {set_config_values(Context)} :
          /\ participant' = c.p
          /\ my_team' = c.t
    /\ UNCHANGED <<requests, raised, cycle, created>>

\* One call of team_run on a stand-alone team.
TeamRun ==
    /\ participant = None
    /\ my_team # None
    /\ cycle < MaxCycles
    /\ \E r \in CycleAnswers(Context, NoResponses, 1) : RunWith(r)

Next == Run \/ SetNewDonation
Spec == Init /\ [][Next]_vars

\* The polling loop of participant.py alone: nothing but run touches the
\* participant.
NextLoop == Run
SpecLoop == Init /\ [][NextLoop]_vars

\* A participant that owns a team, and the owner of the participant.
NextOwned == Run \/ SetConfigValues
SpecOwned == InitOwned /\ [][NextOwned]_vars

NextTeam == TeamRun
SpecTeam == InitTeam /\ [][NextTeam]_vars

\* The fields the participant and team payloads are required to carry, and
\* a payload without some of them.
RequiredParticipantFields == {"sumDonations", "numDonations", "fundraisingGoal", "links"}
RequiredTeamFields == {"sumDonations", "numDonations", "fundraisingGoal"}
Without(json, keys) == [k \in DOMAIN json \ keys |-> json[k]]
AtMostOne(fields) == {{}} \cup {{f} : f \in fields}

\* The answers of a server whose participant and team payloads are the given
\* ones and whose other endpoints give their non-empty results.
AnswersWith(participant_json, team_json) ==
    [e \in DOMAIN NoResponses |->
        IF e = "participant" THEN Ok(participant_json)
        ELSE IF e = "team" THEN Ok(team_json)
        ELSE CHOOSE a \in Responses[e] : Truthy(a)]

\* One pass of the polling loop against a server that may leave a required
\* field out of the participant payload or of the team payload.
RunMissing ==
    /\ participant # None
    /\ raised = "none"
    /\ cycle < MaxMissingCycles
    /\ \E pt \in ParticipantTotals, tt \in TeamTotals,
          pm \in AtMostOne(RequiredParticipantFields), tm \in AtMostOne(RequiredTeamFields) :
          RunWith(AnswersWith(Without(ParticipantJSON(pt[1], pt[2]), pm),
                              Without(TeamJSON(tt[1], tt[2]), tm)))

NextMissing == RunMissing
SpecMissing == InitOwned /\ [][NextMissing]_vars

\* The endpoints behind the recent and top lists, and what each of them does
\* in one cycle: at most MaxFaults of them fail or answer an empty list.
TopEndpoints ==
    {"donations", "top_donations", "donors", "top_donors", "team_participants", "team_top5"}
TopFaults ==
    {f \in [TopEndpoints -> {"result", "empty", "failure"}] :
        Cardinality({e \in TopEndpoints : f[e] # "result"}) <= MaxFaults}

\* The totals <<sumDonations, numDonations>> of the participant and of its
\* team at the moments the server is polled.
Snapshots ==
    {<<<<0, 0>>, <<0, 0>>>>, <<<<100, 1>>, <<50, 5>>>>, <<<<100, 3>>, <<60, 5>>>>,
     <<<<150, 3>>, <<1200, 6>>>>}

\* The answers of a server with the given participant and team payloads
\* whose list endpoints do as f says.
AnswersTop(participant_json, team_json, f) ==
    [e \in DOMAIN NoResponses |->
        IF e \in TopEndpoints /\ f[e] = "empty" THEN Ok(<<>>)
        ELSE IF e \in TopEndpoints /\ f[e] = "failure" THEN Failure
        ELSE AnswersWith(participant_json, team_json)[e]]

\* One pass of the polling loop in which only the endpoints of the recent
\* and top lists may fail or be empty.
RunTop ==
    /\ participant # None
    /\ raised = "none"
    /\ cycle < MaxTopCycles
    /\ \E s \in Snapshots, f \in TopFaults :
          RunWith(AnswersTop(ParticipantJSON(s[1][1], s[1][2]), TeamJSON(s[2][1], s[2][2]), f))

NextTop == RunTop
SpecTop == InitOwned /\ [][NextTop]_vars

\* A JSON object with every key that each record builder reads.
MilestoneJSON ==
    [description |-> "milestone", fundraisingGoal |-> 100, isActive |-> TRUE,
     milestoneID |-> "m1", isComplete |-> TRUE, links |-> [donate |-> "donate"],
     endDateUTC |-> "2021-01-01", startDateUTC |-> "2020-01-01"]
IncentiveJSON ==
    [amount |-> 20, description |-> "incentive", incentiveID |-> "i1", isActive |-> TRUE,
     endDateUTC |-> "2021-01-01", incentiveImageURL |-> "incentive.png",
     links |-> [donate |-> "donate"], startDateUTC |-> "2020-01-01", quantity |-> 3,
     quantityClaimed |-> 2]
TeamGroupJSON ==
    [fundraisingGoal |-> 1000, groupCode |-> "g1", name |-> "group", numDonations |-> 4,
     numParticipants |-> 3, numTeams |-> 2, sumDonations |-> 60]

\* The JSON objects handed to a builder: the full object without any of its
\* keys.
JSONObjects(json) == {Without(json, keys) : keys \in SUBSET DOMAIN json}

\* A JSON object decoded for one of the builders, nothing built yet.
InitBuilders ==
    /\ participant = None
    /\ my_team = None
    /\ requests = <<>>
    /\ raised = "none"
    /\ cycle = 0
    /\ \/ \E json_data \in JSONObjects(MilestoneJSON) :
              created = [builder |-> "create_milestone", json_data |-> json_data,
                         record |-> None]
       \/ \E json_data \in JSONObjects(IncentiveJSON) :
              created = [builder |-> "create_incentive", json_data |-> json_data,
                         record |-> None]
       \/ \E json_data \in JSONObjects(TeamGroupJSON) :
              created = [builder |-> "create_team_group", json_data |-> json_data,
                         record |-> None]

\* Milestone.create_milestone(json_data)
CreateMilestone ==
    /\ created # None
    /\ created.builder = "create_milestone"
    /\ created.record = None
    /\ created' = [created EXCEPT !.record = create_milestone(created.json_data)]
    /\ UNCHANGED <<participant, my_team, requests, raised, cycle>>

\* Incentive.create_incentive(json_data)
CreateIncentive ==
    /\ created # None
    /\ created.builder = "create_incentive"
    /\ created.record = None
    /\ created' = [created EXCEPT !.record = create_incentive(created.json_data)]
    /\ UNCHANGED <<participant, my_team, requests, raised, cycle>>

\* create_team_group(json_data)
CreateTeamGroup ==
    /\ created # None
    /\ created.builder = "create_team_group"
    /\ created.record = None
    /\ created' = [created EXCEPT !.record = create_team_group(created.json_data)]
    /\ UNCHANGED <<participant, my_team, requests, raised, cycle>>

NextBuilders == CreateMilestone \/ CreateIncentive \/ CreateTeamGroup
SpecBuilders == InitBuilders /\ [][NextBuilders]_vars

\* The activity objects of the activity endpoint, and the time zones the
\* process may find itself in when it displays one.
CreatedDates ==
    {[day |-> 1, hour |-> 0, utc_offset |-> 0], [day |-> 1, hour |-> 12, utc_offset |-> 0],
     [day |-> 1, hour |-> 23, utc_offset |-> 0]}
ActivityObjects ==
    {[amount |-> 25, createdDateUTC |-> date, imageURL |-> "image.png",
      isIncentive |-> incentive, message |-> "message", title |-> "title",
      type |-> type] :
        date \in CreatedDates, incentive \in BOOLEAN,
        type \in {"donation", "participantBadge", "teamBadge", "somethingElse"}}
TimeZones == {-5, 0, 1}

\* An activity object decoded, not displayed yet.
InitActivity ==
    /\ participant = None
    /\ my_team = None
    /\ requests = <<>>
    /\ raised = "none"
    /\ cycle = 0
    /\ \E json_data \in ActivityObjects :
          created = [builder |-> "create_activity", json_data |-> json_data,
                     displayed |-> <<>>]

\* One run: str(create_activity(json_data)), in the time zone the process is
\* in.
DisplayActivity ==
    /\ created # None
    /\ created.builder = "create_activity"
    /\ Len(created.displayed) < MaxDisplays
    /\ \E my_time_zone \in TimeZones :
          created' = [created EXCEPT !.displayed =
                         Append(@, __str__(create_activity(created.json_data),
                                           my_time_zone))]
    /\ UNCHANGED <<participant, my_team, requests, raised, cycle>>

NextActivity == DisplayActivity
SpecActivity == InitActivity /\ [][NextActivity]_vars

C2_FirstCycleSuppression == cycle <= 1 => ~participant._new_donation

\* The first run has fetched a positive count.
C2_Witness ==
    /\ cycle = 1
    /\ participant._number_of_donations > 0
    /\ Asked(Context, requests, "donations")
    /\ ~participant._new_donation

\* C3: every run asks for the participant, the incentives and the
\* activities; it refreshes donations, donors, badges and milestones (the
\* donations and donors being asked for when the count is positive) if and
\* only if it is the first run or the count it fetched is greater than the
\* count held before it, and otherwise leaves those four data sets as they
\* were.
C3_RunGating ==
    [][cycle' = cycle + 1 =>
          /\ Asked(Context, requests', "participant")
          /\ Asked(Context, requests', "incentives")
          /\ Asked(Context, requests', "activities")
          /\ IF \/ participant._first_run
                \/ participant'._number_of_donations > participant._number_of_donations
             THEN /\ participant'._number_of_donations > 0 =>
                        /\ Asked(Context, requests', "donations")
                        /\ Asked(Context, requests', "top_donations")
                        /\ Asked(Context, requests', "donors")
                  /\ Asked(Context, requests', "badges")
                  /\ Asked(Context, requests', "milestones")
             ELSE /\ \A e \in {"donations", "top_donations", "donors", "top_donors",
                               "badges", "milestones"} : ~Asked(Context, requests', e)
                  /\ participant'._donation_list = participant._donation_list
                  /\ participant'._ordered_donation_list = participant._ordered_donation_list
                  /\ participant'._top_donation = participant._top_donation
                  /\ participant'._donor_list = participant._donor_list
                  /\ participant'._ordered_donor_list = participant._ordered_donor_list
                  /\ participant'._top_donor = participant._top_donor
                  /\ participant'._badges = participant._badges
                  /\ participant'._milestones = participant._milestones]_vars

\* C4: a team_run whose fetched donation count is not greater than the count
\* held before it asks for no participants and no donations and leaves the
\* participant list, the top-5 list, the donation list and their formatted
\* outputs as they were; one whose count is greater asks for all three.
C4_TeamRefreshGating ==
    [][cycle' = cycle + 1 =>
          IF my_team'._num_donations > my_team._num_donations
          THEN /\ Asked(Context, requests', "team_participants")
               /\ Asked(Context, requests', "team_top5")
               /\ Asked(Context, requests', "team_donations")
          ELSE /\ \A e \in {"team_participants", "team_top5", "team_donations"} :
                     ~Asked(Context, requests', e)
               /\ my_team'._participant_list = my_team._participant_list
               /\ my_team'._top_5_participant_list = my_team._top_5_participant_list
               /\ my_team'._donation_list = my_team._donation_list
               /\ my_team'._participant_calculation_dict =
                      my_team._participant_calculation_dict
               /\ my_team'._donation_formatted_output =
                      my_team._donation_formatted_output]_vars

\* A team_run that fetched the count 5 it already held: the lists of the
\* earlier refresh are in place and nothing but the team and its badges was
\* asked for.
C4_Witness ==
    /\ cycle >= 2
    /\ my_team._num_donations = 5
    /\ my_team._participant_list # <<>>
    /\ my_team._donation_list # <<>>
    /\ Asked(Context, requests, "team") /\ ~Failed(Context, requests, "team")
    /\ ~Asked(Context, requests, "team_participants")

\* What C5 says of the team_run answered by r.
TeamAlwaysRefreshed(r) ==
    LET c == team_run(Context, r)
    IN  /\ Asked(Context, c.log, "team")
        /\ Asked(Context, c.log, "team_badges")
        /\ Truthy(r.team) =>
              /\ c.t._team_goal = r.team.data.fundraisingGoal
              /\ c.t._team_captain = r.team.data.captainDisplayName
              /\ c.t._total_raised = r.team.data.sumDonations
              /\ c.t._num_donations = r.team.data.numDonations
              /\ c.t._team_avatar_image = r.team.data.avatarImageURL
        /\ c.t._team_info.Team_goal = FormatCurrency(c.t._currency_symbol, c.t._team_goal)
        /\ c.t._team_info.Team_captain = c.t._team_captain
        /\ c.t._team_info.Team_totalRaised =
               FormatCurrency(c.t._currency_symbol, c.t._total_raised)
        /\ c.t._team_info.Team_numDonations = <<"str", c.t._num_donations>>
        /\ r.team_badges.ok => Len(c.t._badges) = Len(r.team_badges.data)
        /\ \A i \in 1..Len(c.t._badges) :
              c.t._badges[i].title = r.team_badges.data[i].title

\* C5: whatever a team_run is answered, and whether or not the donation
\* count changed, it asks for the team and for its badges, takes the five
\* scalars from the team it fetched, rebuilds the team-info mapping from the
\* scalars and rebuilds the badges from the badges it fetched.
C5_TeamAlwaysRefreshed ==
    \A r \in CycleAnswers(Context, NoResponses, 1) : TeamAlwaysRefreshed(r)

\* A team_run that fetched an unchanged count of 5 and a new total of 60.
C5_Witness ==
    /\ cycle >= 2
    /\ my_team._num_donations = 5
    /\ my_team._total_raised = 60
    /\ my_team._participant_list # <<>>
    /\ ~Asked(Context, requests, "team_participants")
    /\ my_team._badges # <<>>

\* C6: the average donation is the total raised divided by the number of
\* donations when that number is positive, and 0 when it is 0.
C6_AverageDonation ==
    IF participant._number_of_donations > 0
    THEN participant._average_donation.num * participant._number_of_donations =
             participant._total_raised * participant._average_donation.den
    ELSE participant._average_donation = Number(0)

\* A run has fetched 150 raised in 3 donations: the average is 50.
C6_Witness ==
    /\ cycle >= 1
    /\ participant._total_raised = 150
    /\ participant._number_of_donations = 3
    /\ participant._average_donation = Number(50)

\* The fields derived from an endpoint are, after the step, what they were
\* before it.
Retained(endpoint) ==
    CASE endpoint = "participant" ->
             /\ participant'._total_raised = participant._total_raised
             /\ participant'._number_of_donations = participant._number_of_donations
             /\ participant'._goal = participant._goal
             /\ participant'._avatar_image_url = participant._avatar_image_url
             /\ participant'._event_name = participant._event_name
             /\ participant'._donation_link_url = participant._donation_link_url
             /\ participant'._stream_url = participant._stream_url
             /\ participant'._extra_life_page_url = participant._extra_life_page_url
             /\ participant'._created_date_utc = participant._created_date_utc
             /\ participant'._stream_is_live = participant._stream_is_live
             /\ participant'._sum_pledges = participant._sum_pledges
             /\ participant'._team_name = participant._team_name
             /\ participant'._is_team_captain = participant._is_team_captain
             /\ participant'._display_name = participant._display_name
      [] endpoint = "incentives" -> participant'._incentives = participant._incentives
      [] endpoint = "activities" -> participant'._activities = participant._activities
      [] endpoint = "donations" -> participant'._donation_list = participant._donation_list
      [] endpoint = "top_donations" ->
             /\ participant'._ordered_donation_list = participant._ordered_donation_list
             /\ participant'._top_donation = participant._top_donation
      [] endpoint = "donors" -> participant'._donor_list = participant._donor_list
      [] endpoint = "top_donors" ->
             /\ participant'._ordered_donor_list = participant._ordered_donor_list
             /\ participant'._top_donor = participant._top_donor
      [] endpoint = "badges" -> participant'._badges = participant._badges
      [] endpoint = "milestones" -> participant'._milestones = participant._milestones
      [] endpoint = "team" ->
             /\ my_team'._team_goal = my_team._team_goal
             /\ my_team'._team_captain = my_team._team_captain
             /\ my_team'._total_raised = my_team._total_raised
             /\ my_team'._num_donations = my_team._num_donations
             /\ my_team'._team_avatar_image = my_team._team_avatar_image
      [] endpoint = "team_badges" -> my_team'._badges = my_team._badges
      [] endpoint = "team_participants" ->
             my_team'._participant_list = my_team._participant_list
      [] endpoint = "team_top5" ->
             my_team'._top_5_participant_list = my_team._top_5_participant_list
      [] endpoint = "team_donations" -> my_team'._donation_list = my_team._donation_list

\* C7: in every cycle, the fields derived from an endpoint whose fetch
\* failed are what they were at the end of the previous cycle, and the cycle
\* goes on to its end.
C7_FailureRetainsPrevious ==
    [][cycle' = cycle + 1 =>
          /\ \A i \in 1..Len(Endpoints) :
                Failed(Context, requests', Endpoints[i]) => Retained(Endpoints[i])
          /\ raised' = "none"]_vars

\* C8: whatever the endpoints answer, no cycle raises.
C8_NeverRaises == raised = "none"

\* C9: every activity built from a JSON object is a DonationActivity with
\* the JSON amount when the type is "donation", a BadgeActivity when the type
\* is "participantBadge" or "teamBadge", and a plain Activity for any other
\* type and for a missing one.
C9_ActivityDispatch ==
    \A i \in 1..Len(participant._activities) :
        LET an_activity == participant._activities[i]
        IN  CASE an_activity.type = "donation" ->
                     /\ an_activity.class = "DonationActivity"
                     /\ an_activity.amount = ActivityJSON("donation").amount
              [] an_activity.type \in {"participantBadge", "teamBadge"} ->
                     an_activity.class = "BadgeActivity"
              [] OTHER -> an_activity.class = "Activity"

\* C10: _first_run is true before the first run; a run that completes
\* leaves it false and a run that raises leaves it as it was; once false it
\* is never true again.
C10_FirstRunToSteadyState ==
    [][/\ cycle = 0 => participant._first_run
       /\ cycle' = cycle + 1 =>
             (participant'._first_run <=> participant._first_run /\ raised' # "none")
       /\ ~participant._first_run => ~participant'._first_run]_vars

\* Two runs have completed: the participant is in its steady state and the
\* second run, which found no new donation, refreshed nothing.
C10_Witness ==
    /\ cycle = 2
    /\ raised = "none"
    /\ ~participant._first_run
    /\ ~Asked(Context, requests, "milestones")

\* C11: the participant owns a team if and only if its team ID is not
\* empty, and no public operation replaces the team: an operation that is
\* not a cycle leaves the team as it is, and a cycle leaves it the team of
\* the same ID and URLs.
C11_TeamNeverReplaced ==
    [][/\ my_team # None <=> participant._team_id # ""
       /\ my_team' # None <=> participant'._team_id # ""
       /\ cycle' = cycle => my_team' = my_team
       /\ my_team # None =>
             /\ my_team'._team_id = my_team._team_id
             /\ my_team'._team_url = my_team._team_url]_vars

\* The literal placeholders of the formatted views.
Placeholders == {NoDonationsYet, NoDonorsYet, NoParticipants}

\* Every one of the keys is in the mapping and maps to a placeholder.
AllPlaceholders(mapping, keys) ==
    \A k \in keys : k \in DOMAIN mapping /\ mapping[k] \in Placeholders

\* C12: while the source list of a formatted view is empty, every key of
\* the view's output mapping is present and holds a literal placeholder.
C12_EmptyViewsHoldPlaceholders ==
    /\ participant # None =>
          /\ participant._donation_list = <<>> =>
                /\ AllPlaceholders(participant._donation_formatted_output,
                       {"LastDonationNameAmnt", "lastNDonationNameAmts",
                        "lastNDonationNameAmtsMessage",
                        "lastNDonationNameAmtsMessageHorizontal",
                        "lastNDonationNameAmtsHorizontal"})
                /\ AllPlaceholders(participant._top_donation_formatted_output,
                       {"TopDonationNameAmnt"})
          /\ participant._donor_list = <<>> =>
                /\ AllPlaceholders(participant._donor_formatted_output,
                       {"LastDonorNameAmnt", "lastNDonorNameAmts",
                        "lastNDonorNameAmtsMessage",
                        "lastNDonorNameAmtsMessageHorizontal",
                        "lastNDonorNameAmtsHorizontal"})
                /\ AllPlaceholders(participant._top_donor_formatted_output,
                       {"TopDonorNameAmnt"})
    /\ my_team # None =>
          /\ my_team._donation_list = <<>> =>
                AllPlaceholders(my_team._donation_formatted_output,
                    {"Team_LastDonationNameAmnt", "Team_lastNDonationNameAmts",
                     "Team_lastNDonationNameAmtsMessage",
                     "Team_lastNDonationNameAmtsMessageHorizontal",
                     "Team_lastNDonationNameAmtsHorizontal"})
          /\ my_team._top_5_participant_list = <<>> =>
                AllPlaceholders(my_team._participant_calculation_dict,
                    {"Team_TopParticipantNameAmnt", "Team_Top5ParticipantsHorizontal",
                     "Team_Top5Participants"})

\* The amount that thousands groups spell.
RECURSIVE GroupsValue(_)
GroupsValue(groups) ==
    IF groups = <<>> THEN 0
    ELSE GroupsValue(SubSeq(groups, 1, Len(groups) - 1)) * 1000 + groups[Len(groups)]

\* text is the symbol followed by the whole amount in thousands groups and
\* two decimals.
IsFormattedAmount(text, symbol, amount) ==
    /\ text.symbol = symbol
    /\ \A i \in 1..Len(text.groups) : text.groups[i] >= 0 /\ text.groups[i] < 1000
    /\ Len(text.groups) > 1 => text.groups[1] > 0
    /\ GroupsValue(text.groups) = amount
    /\ text.cents = 0

\* C13: every formatted amount of a team (goal, total raised, top
\* participant) is the team's currency symbol followed by the amount with
\* thousands grouping and two decimals.
C13_CurrencyFormat ==
    /\ my_team._team_info # <<>> =>
          /\ IsFormattedAmount(my_team._team_info.Team_goal, my_team._currency_symbol,
                               my_team._team_goal)
          /\ IsFormattedAmount(my_team._team_info.Team_totalRaised,
                               my_team._currency_symbol, my_team._total_raised)
    /\ my_team._participant_calculation_dict # <<>>
          /\ my_team._top_5_participant_list # <<>> =>
          IsFormattedAmount(my_team._participant_calculation_dict.Team_TopParticipantNameAmnt[3],
                            my_team._currency_symbol,
                            my_team._top_5_participant_list[1].amount)

\* The records are in descending order of amount.
SortedDescending(records) ==
    \A i, j \in 1..Len(records) : i < j => records[i].amount >= records[j].amount

C15_EmptyIsNotFailure ==
    [][cycle' = cycle + 1 =>
          /\ Empty(Context, requests', "team_participants") =>
                my_team'._participant_list = <<>>
          /\ Empty(Context, requests', "team_top5") =>
                my_team'._top_5_participant_list = <<>>
          /\ Failed(Context, requests', "team_participants") =>
                Retained("team_participants")
          /\ Failed(Context, requests', "team_top5") => Retained("team_top5")]_vars

\* Whether the cycle that issued the requests of log fetched, from the
\* endpoint, a payload without the field.
Lacks(log, endpoint, field) ==
    /\ Asked(Context, log, endpoint)
    /\ Fetched(Context, log, endpoint).ok
    /\ field \notin DOMAIN Fetched(Context, log, endpoint).data

\* C16: a cycle that fetches a participant or team payload without
\* sumDonations, numDonations, fundraisingGoal or links raises nothing, and
\* the field of the missing value is unset after it.
C16_MissingFieldsDoNotCrash ==
    [][cycle' = cycle + 1 =>
          /\ raised' = "none"
          /\ Lacks(requests', "participant", "sumDonations") =>
                participant'._total_raised = NoneNumber
          /\ Lacks(requests', "participant", "numDonations") =>
                participant'._number_of_donations = NoneNumber
          /\ Lacks(requests', "participant", "fundraisingGoal") =>
                participant'._goal = NoneNumber
          /\ Lacks(requests', "participant", "links") =>
                participant'._donation_link_url = None
          /\ Lacks(requests', "team", "sumDonations") =>
                my_team'._total_raised = NoneNumber
          /\ Lacks(requests', "team", "numDonations") =>
                my_team'._num_donations = NoneNumber
          /\ Lacks(requests', "team", "fundraisingGoal") =>
                my_team'._team_goal = NoneNumber]_vars

\* C17: after a run that refreshed donations and donors (first cycle, or
\* the count increased) and raised nothing, the totals mapping spells the
\* total, the average, the goal and the count held, and the donation, donor,
\* top-donation and top-donor mappings of a non-empty list or a top record
\* held are no longer the initial placeholders.
C17_RunReformats ==
    [][(/\ cycle' = cycle + 1
        /\ raised' = "none"
        /\ participant._first_run
               \/ participant'._number_of_donations > participant._number_of_donations) =>
          /\ participant'._participant_formatted_output.totalRaised =
                 FormatCurrency(participant'._currency_symbol, participant'._total_raised)
          /\ participant'._participant_formatted_output.goal =
                 FormatCurrency(participant'._currency_symbol, participant'._goal)
          /\ "numDonations" \in DOMAIN participant'._participant_formatted_output
          /\ participant'._donation_list # <<>> =>
                 participant'._donation_formatted_output.LastDonationNameAmnt
                     \notin Placeholders
          /\ participant'._donor_list # <<>> =>
                 participant'._donor_formatted_output.LastDonorNameAmnt \notin Placeholders
          /\ participant'._top_donation # None =>
                 participant'._top_donation_formatted_output.TopDonationNameAmnt
                     \notin Placeholders
          /\ participant'._top_donor # None =>
                 participant'._top_donor_formatted_output.TopDonorNameAmnt
                     \notin Placeholders]_vars

\* The list-valued field that an endpoint refreshes, in the objects p and t.
ListField(p, t, endpoint) ==
    CASE endpoint = "incentives" -> p._incentives
      [] endpoint = "activities" -> p._activities
      [] endpoint = "donations" -> p._donation_list
      [] endpoint = "top_donations" -> p._ordered_donation_list
      [] endpoint = "donors" -> p._donor_list
      [] endpoint = "top_donors" -> p._ordered_donor_list
      [] endpoint = "badges" -> p._badges
      [] endpoint = "milestones" -> p._milestones
      [] endpoint = "team_badges" -> t._badges
      [] endpoint = "team_participants" -> t._participant_list
      [] endpoint = "team_top5" -> t._top_5_participant_list
      [] endpoint = "team_donations" -> t._donation_list

\* The record that an endpoint's list holds for one JSON object.
Built(endpoint, json) ==
    CASE endpoint = "incentives" -> create_incentive(json)
      [] endpoint = "activities" -> create_activity(json)
      [] endpoint \in {"donations", "top_donations", "team_donations"} -> Donation(json)
      [] endpoint \in {"donors", "top_donors"} -> Donor(json)
      [] endpoint \in {"badges", "team_badges"} -> Badge(json)
      [] endpoint = "milestones" -> create_milestone(json)
      [] endpoint \in {"team_participants", "team_top5"} -> TeamParticipant(json)

\* The list field of the endpoint is, after the step, the list built from
\* the collection the step fetched from it.
ReplacedAsAWhole(endpoint) ==
    ListField(participant', my_team', endpoint) =
        [i \in 1..Len(Fetched(Context, requests', endpoint).data) |->
            Built(endpoint, Fetched(Context, requests', endpoint).data[i])]

\* C18: in every cycle, each list field whose fetch succeeded is the list
\* built from what that fetch returned, whatever the field held before.
C18_ListsReplacedAsAWhole ==
    [][cycle' = cycle + 1 =>
          \A i \in 1..Len(Endpoints) :
              (/\ Endpoints[i] \notin {"participant", "team"}
               /\ Asked(Context, requests', Endpoints[i])
               /\ Fetched(Context, requests', Endpoints[i]).ok) =>
                  ReplacedAsAWhole(Endpoints[i])]_vars

\* The documented defaults of the optional keys; a required key has none.
DocumentedDefaults ==
    [isComplete |-> FALSE, links |-> <<>>, endDateUTC |-> "", startDateUTC |-> "",
     incentiveImageURL |-> "", quantity |-> 0, quantityClaimed |-> 0]

\* The field of a builder's record that holds the value of a JSON key.
FieldOfKey(builder) ==
    CASE builder = "create_milestone" ->
             [description |-> "description", fundraisingGoal |-> "fundraising_goal",
              isActive |-> "is_active", milestoneID |-> "milestone_id",
              isComplete |-> "is_complete", links |-> "links",
              endDateUTC |-> "end_date_utc", startDateUTC |-> "start_date_utc"]
      [] builder = "create_incentive" ->
             [amount |-> "amount", description |-> "description",
              incentiveID |-> "incentive_id", isActive |-> "is_active",
              endDateUTC |-> "end_date_utc", incentiveImageURL |-> "incentive_image_url",
              links |-> "links", startDateUTC |-> "start_date_utc",
              quantity |-> "quantity", quantityClaimed |-> "quantity_claimed"]
      [] builder = "create_team_group" ->
             [fundraisingGoal |-> "fundraising_goal", groupCode |-> "group_code",
              name |-> "name", numDonations |-> "number_of_donations",
              numParticipants |-> "number_of_participants", numTeams |-> "number_of_teams",
              sumDonations |-> "sum_of_donations"]

\* C20: the record a builder makes holds, for every key it reads, the value
\* of the key when the JSON object has it, the documented default when an
\* optional key is missing, and None when a required key is missing.
C20_BuilderDefaults ==
    (created # None /\ created.record # None) =>
        \A key \in DOMAIN FieldOfKey(created.builder) :
            created.record[FieldOfKey(created.builder)[key]] =
                IF key \in DOMAIN created.json_data THEN created.json_data[key]
                ELSE IF key \in DOMAIN DocumentedDefaults THEN DocumentedDefaults[key]
                ELSE None

\* An incentive, a milestone or a team group was built from a JSON object
\* that lacks an optional key and a required key.
C20_Witness ==
    /\ created # None
    /\ created.record # None
    /\ \/ /\ created.builder = "create_milestone"
          /\ DOMAIN created.json_data = {"description", "links"}
       \/ /\ created.builder = "create_incentive"
          /\ DOMAIN created.json_data = {"amount", "quantity"}
       \/ /\ created.builder = "create_team_group"
          /\ DOMAIN created.json_data = {}

\* C21: the display strings that any two runs derive from the same
\* activity object are the same string.
C21_DisplayDeterministic ==
    (created # None /\ created.builder = "create_activity") =>
        \A i, j \in 1..Len(created.displayed) : created.displayed[i] = created.displayed[j]

\* C22: a run that is not the first one and fetches a count greater than
\* the count held before it ends with new_donation true and has asked for
\* the donations, the top donations, the donors, the badges and the
\* milestones.
C22_RisingEdge ==
    [][(/\ cycle' = cycle + 1
        /\ ~participant._first_run
        /\ participant'._number_of_donations > participant._number_of_donations) =>
          /\ participant'._new_donation
          /\ \A e \in {"donations", "top_donations", "donors", "badges", "milestones"} :
                 Asked(Context, requests', e)]_vars

\* Whether a request of the log is one of the team's: its URL is under
\* "teams".
IsTeamRequest(request) == request[1][2] = "teams"

\* The positions in the log of the requests for the team itself, the first
\* request of every team_run.
TeamRuns(log) ==
    {i \in 1..Len(log) : IsTeamRequest(log[i]) /\ Len(log[i][1]) = 3}

\* C23: a run of a participant with a team ID makes exactly one team_run,
\* after every request of the participant's own; a run of a participant
\* without one makes no request of a team.
C23_TeamRunOncePerRun ==
    [][cycle' = cycle + 1 =>
          IF participant._team_id # ""
          THEN /\ Cardinality(TeamRuns(requests')) = 1
               /\ \A i, j \in 1..Len(requests') :
                      (IsTeamRequest(requests'[i]) /\ ~IsTeamRequest(requests'[j])) => j < i
          ELSE \A i \in 1..Len(requests') : ~IsTeamRequest(requests'[i])]_vars

\* C24: the requests of one cycle, team_run included, are pairwise
\* different in URL or top flag: no endpoint is asked twice in a cycle,
\* whether or not its fetch failed.
C24_NoRetryWithinCycle ==
    \A i, j \in 1..Len(requests) :
        (requests[i][1] = requests[j][1] /\ requests[i][2] = requests[j][2]) => i = j

\* A completed cycle of a participant and its team in which the fetch of
\* the team's top participants failed and the refreshes of both went on.
C24_Witness ==
    /\ cycle = 2
    /\ raised = "none"
    /\ Failed(Context, requests, "team_top5")
    /\ Asked(Context, requests, "team_donations")
    /\ Asked(Context, requests, "top_donors")

\* C25: a run after the first whose participant fetch fails leaves the
\* fourteen scalars and the average donation as they were, asks for no
\* donations, donors, badges or milestones, leaves their lists as they were
\* and does not change new_donation.
C25_ScalarFailureInSteadyState ==
    [][(/\ cycle' = cycle + 1
        /\ ~participant._first_run
        /\ Failed(Context, requests', "participant")) =>
          /\ Retained("participant")
          /\ participant'._average_donation = participant._average_donation
          /\ \A e \in {"donations", "top_donations", "donors", "top_donors", "badges",
                       "milestones"} :
                 ~Asked(Context, requests', e) /\ Retained(e)
          /\ participant'._new_donation = participant._new_donation
          /\ raised' = "none"]_vars

\* A second or later run whose participant fetch failed while donations
\* were held.
C25_Witness ==
    /\ cycle >= 2
    /\ raised = "none"
    /\ Failed(Context, requests, "participant")
    /\ participant._number_of_donations > 0
    /\ participant._donation_list # <<>>

\* C26: a run that ends with a donation count of 0 has asked for no
\* donations and no donors and leaves the donation list, the ordered
\* donation list, the top donation, the donor list, the ordered donor list
\* and the top donor as they were; they are empty or absent at the start, so
\* they stay so while the count stays 0.
C26_NoDonationsNothingFetched ==
    [][/\ cycle = 0 =>
             /\ participant._donation_list = <<>>
             /\ participant._ordered_donation_list = <<>>
             /\ participant._top_donation = None
             /\ participant._donor_list = <<>>
             /\ participant._ordered_donor_list = <<>>
             /\ participant._top_donor = None
       /\ (cycle' = cycle + 1 /\ participant'._number_of_donations = 0) =>
             \A e \in {"donations", "top_donations", "donors", "top_donors"} :
                 ~Asked(Context, requests', e) /\ Retained(e)]_vars

\* A first run that fetched a count of 0: it refreshed the badges and asked
\* for no donations.
C26_Witness ==
    /\ cycle = 1
    /\ participant._number_of_donations = 0
    /\ Asked(Context, requests, "badges")
    /\ ~Asked(Context, requests, "donations")
    /\ participant._donation_list = <<>>
    /\ participant._top_donor = None

\* C27: in a run whose update_donor_data asked for the donors, an empty
\* donor list leaves the ordered donor list and the top donor as they were
\* and nothing is raised; a non-empty donor list makes the top donor the
\* first element of the ordered donor list fetched after it.
C27_AnonymousDonors ==
    [][(cycle' = cycle + 1 /\ Asked(Context, requests', "donors")) =>
          IF participant'._donor_list = <<>>
          THEN /\ ~Asked(Context, requests', "top_donors")
               /\ Retained("top_donors")
               /\ raised' = "none"
          ELSE /\ Asked(Context, requests', "top_donors")
               /\ participant'._ordered_donor_list # <<>>
               /\ participant'._top_donor = participant'._ordered_donor_list[1]]_vars

\* C28: a new team holds no participants, no top-5 participants and a
\* participant output mapping without entries; a team_run that ends with a
\* donation count of 0 asks for no participants and no donations and leaves
\* the two lists and the mapping as they were, so they stay empty while the
\* count stays 0, whatever participants the team has.
C28_TeamHasNoFirstCycle ==
    [][/\ cycle = 0 =>
             /\ my_team._participant_list = <<>>
             /\ my_team._top_5_participant_list = <<>>
             /\ DOMAIN my_team._participant_calculation_dict = {}
       /\ (cycle' = cycle + 1 /\ my_team'._num_donations = 0) =>
             /\ \A e \in {"team_participants", "team_top5", "team_donations"} :
                    ~Asked(Context, requests', e) /\ Retained(e)
             /\ my_team'._participant_calculation_dict =
                    my_team._participant_calculation_dict]_vars

\* Two team_runs fetched a count of 0: the team was asked, and the lists and
\* the mapping are still empty.
C28_Witness ==
    /\ cycle = 2
    /\ my_team._num_donations = 0
    /\ Asked(Context, requests, "team")
    /\ my_team._participant_list = <<>>
    /\ my_team._top_5_participant_list = <<>>
    /\ DOMAIN my_team._participant_calculation_dict = {}

\* C29: a run that raises nothing ends with the first-run flag cleared,
\* whether or not its participant fetch failed; and a later run that holds a
\* count of 0 and fetches a positive count sets new_donation and asks for
\* the donations, the top donations, the donors, the badges and the
\* milestones.
C29_FirstRunClearedOnFailure ==
    [][/\ (cycle' = cycle + 1 /\ raised' = "none") => ~participant'._first_run
       /\ (/\ cycle' = cycle + 1
           /\ ~participant._first_run
           /\ participant._number_of_donations = 0
           /\ participant'._number_of_donations > 0) =>
             /\ participant'._new_donation
             /\ \A e \in {"donations", "top_donations", "donors", "badges", "milestones"} :
                    Asked(Context, requests', e)]_vars

====
